---- MODULE Spec2Model ----
(***************************************************************************)
(* rename-files-service (src/src/index.ts): renameProcess lists a          *)
(* directory once and renames every entry whose base name is not a UUID to *)
(* uuid() + extension, one awaited filesystem call at a time.              *)
(*                                                                         *)
(* A file name is a sequence of one-character strings.  The state is the   *)
(* directory (its entries, in the order a listing returns them), the       *)
(* position of the async function between its awaits, its locals           *)
(* (fileNames, total, done, the loop position) and the trace of what one   *)
(* invocation did: filesystem calls issued and settled, console messages   *)
(* and skips.                                                              *)
(***************************************************************************)
EXTENDS Integers, Sequences, FiniteSets, TLC

\* ------------------------------------------------------------------ bounds
\* most entries the directory holds when the service starts
MaxFiles == 3
\* most invocations of renameProcess in one behaviour
MaxRuns == 2
\* most entries another actor creates in the directory
MaxExternal == 1
\* most renames the filesystem rejects in one behaviour
MaxFailures == 3

\* ------------------------------------------------------------- file names
Dot == "."
Dash == "-"

\* two values uuid() can return (version 4, lower-case hex)
U1 == <<"0","f","8","f","a","d","5","b","-","d","9","c","b","-","4","6","9","f","-","a","1","6","5","-","7","0","8","6","7","7","2","8","9","5","0","e">>
U2 == <<"a","1","b","2","c","3","d","4","-","e","5","f","6","-","4","7","a","8","-","8","9","b","0","-","c","1","d","2","e","3","f","4","a","5","b","6">>
UUIDPool == {U1, U2}

\* photo.png
N_photo == <<"p","h","o","t","o",".","p","n","g">>
\* report (no extension)
N_report == <<"r","e","p","o","r","t">>
\* .env (a dot file)
N_env == <<".","e","n","v">>
\* a.tar.gz (two dots)
N_tar == <<"a",".","t","a","r",".","g","z">>
\* a1b2c3d4-e5f6-47a8-89b0-c1d2e3f4a5b6.png
N_uuidPng == U2 \o <<".","p","n","g">>
\* A1B2C3D4-E5F6-47A8-89B0-C1D2E3F4a5b6 (mixed case, no extension)
N_upper == <<"A","1","B","2","C","3","D","4","-","E","5","F","6","-","4","7","A","8","-","8","9","B","0","-","C","1","D","2","E","3","F","4","a","5","b","6">>
\* g1b2c3d4-e5f6-47a8-89b0-c1d2e3f4a5b6 (36 characters, one of them not hex)
N_near == <<"g","1","b","2","c","3","d","4","-","e","5","f","6","-","4","7","a","8","-","8","9","b","0","-","c","1","d","2","e","3","f","4","a","5","b","6">>
\* late.txt
N_late == <<"l","a","t","e",".","t","x","t">>

\* the names the directory may hold at the start; a file is identified by
\* the position of its first name in this list
Candidates == <<N_photo, N_report, N_env, N_tar, N_uuidPng, N_upper, N_near>>
\* the names another actor may create
ExternalNames == {N_late, N_photo}

NoName == <<>>

\* ------------------------------------------------------- pure functions
HexDigits ==
  {"0","1","2","3","4","5","6","7","8","9",
   "a","b","c","d","e","f","A","B","C","D","E","F"}

\* isUUID: ^[hex]{8}-[hex]{4}-[hex]{4}-[hex]{4}-[hex]{12}$
isUUID_lowerOnly(str) ==
  /\ Len(str) = 36
  /\ \A i \in 1..36 :
       IF i \in {9, 14, 19, 24}
         THEN str[i] = Dash
         ELSE str[i] \in {"0","1","2","3","4","5","6","7","8","9",
                          "a","b","c","d","e","f"}

isUUID(str) ==
  /\ Len(str) = 36
  /\ \A i \in 1..36 :
       IF i \in {9, 14, 19, 24} THEN str[i] = Dash ELSE str[i] \in HexDigits

\* position of the last "." of a name, 0 when it has none
LastDot(name) ==
  LET dots == {i \in 1..Len(name) : name[i] = Dot}
  IN  IF dots = {} THEN 0 ELSE CHOOSE i \in dots : \A j \in dots : j <= i

\* position of the first "." of a name, 0 when it has none
FirstDot(name) ==
  LET dots == {i \in 1..Len(name) : name[i] = Dot}
  IN  IF dots = {} THEN 0 ELSE CHOOSE i \in dots : \A j \in dots : i <= j

\* node's path.extname / path.parse on a name without separators: no
\* extension when there is no dot, when the only dot leads the name, or
\* when the name is ".."
HasExt(name) ==
  /\ LastDot(name) > 1
  /\ ~(Len(name) = 2 /\ name[1] = Dot /\ name[2] = Dot)

Extname_fromFirstDot(name) ==
  IF HasExt(name) /\ FirstDot(name) > 1
    THEN SubSeq(name, FirstDot(name), Len(name))
    ELSE IF HasExt(name) THEN SubSeq(name, LastDot(name), Len(name)) ELSE <<>>

\* path.extname(fileName)
Extname(name) ==
  IF HasExt(name) THEN SubSeq(name, LastDot(name), Len(name)) ELSE <<>>

\* path.parse(fileName).name
ParseName(name) ==
  IF HasExt(name) THEN SubSeq(name, 1, LastDot(name) - 1) ELSE name

getNewFilename_noExtension(id, fileExtension) == id

\* getNewFilename, with uuid()'s value as id
getNewFilename(id, fileExtension) == id \o fileExtension

\* ------------------------------------------------------------------ state
VARIABLES
  dirKind,      \* what directoryPath is: "dir", "file" or "missing"
  dir,          \* the directory: entries [name, file] in listing order
  pc,           \* where the invocation is: idle, stat, readdir, loop, rename, returned
  fileNames,    \* the listing taken by getFiles
  idx,          \* position in fileNames of the entry the loop is at
  total,
  done,
  inflight,     \* filesystem calls issued and not yet settled
  outcome,      \* of the promise renameProcess returned: pending, resolved, rejected
  trace,        \* what this invocation did, in order
  run,          \* number of the invocation
  external,     \* number of entries another actor has created
  lateCreated,  \* the names another actor created after the listing was taken
  failures,     \* number of renames the filesystem rejected
  listed,       \* the directory as it was when the listing was taken
  generated,    \* values uuid() has returned
  allFresh,     \* every value of uuid() was new and named nothing in the directory
  prevClean,    \* the previous invocation completed with no failed rename
  dirPrev       \* the directory when the previous invocation had returned

vars == <<dirKind, dir, pc, fileNames, idx, total, done, inflight, outcome,
          trace, run, external, lateCreated, failures, listed, generated,
          allFresh, prevClean, dirPrev>>

\* one entry of the trace
Ev(k, w, old, new, n) == [k |-> k, w |-> w, old |-> old, new |-> new, n |-> n]
Issue(w, old, new) == Ev("issue", w, old, new, 0)
Settle(w, old, new, ok) == Ev(IF ok THEN "ok" ELSE "fail", w, old, new, 0)
Log(msg, name, n) == Ev("log", msg, name, NoName, n)

Range(s) == {s[i] : i \in 1..Len(s)}

RECURSIVE Perms(_)
\* every order of the elements of S
Perms(S) ==
  IF S = {} THEN {<<>>}
  ELSE UNION {{<<x>> \o p : p \in Perms(S \ {x})} : x \in S}

\* the names a directory holds, in listing order
ListNames(d) == [i \in 1..Len(d) |-> d[i].name]
Names(d) == Range(ListNames(d))
\* the file a name of the directory names
FileOf(d, n) == (CHOOSE i \in 1..Len(d) : d[i].name = n)
FileAt(d, n) == d[FileOf(d, n)].file

\* the directory after rename(old, new) succeeded: old's entry is named
\* new, and the entry new named before, if any, is gone
Renamed(d, old, new) ==
  LET moved == [i \in 1..Len(d) |->
                  IF d[i].name = old THEN [name |-> new, file |-> d[i].file]
                  ELSE d[i]]
      keep(e) == e.name # new \/ e.file = FileAt(d, old)
  IN  SelectSeq(moved, keep)

Init ==
  /\ dirKind \in {"dir", "file", "missing"}
  /\ \E I \in SUBSET (1..Len(Candidates)) :
       /\ Cardinality(I) <= MaxFiles
       /\ dirKind # "dir" => I = {}
       /\ \E order \in Perms(I) :
            dir = [i \in 1..Len(order) |->
                     [name |-> Candidates[order[i]], file |-> order[i]]]
  /\ pc = "idle"
  /\ fileNames = <<>>
  /\ idx = 1
  /\ total = 0
  /\ done = 0
  /\ inflight = {}
  /\ outcome = "pending"
  /\ trace = <<>>
  /\ run = 1
  /\ external = 0
  /\ lateCreated = {}
  /\ failures = 0
  /\ listed = dir
  /\ generated = {}
  /\ allFresh = TRUE
  /\ prevClean = FALSE
  /\ dirPrev = dir

\* ------------------------------------------------------- renameProcess
Tr(evs) == trace \o evs

\* for (const fileName of fileNames): the entry the loop is at
fileName == fileNames[idx]

InLoop == pc = "loop" /\ idx <= Len(fileNames)

directoryExists_anyKind == dirKind # "missing"

\* stat(directoryPath).then(isDirectory).catch(() => false)
directoryExists == dirKind = "dir"

\* renameProcess returns to its caller: the promise resolves
Return ==
  /\ pc' = "returned"
  /\ outcome' = "resolved"
  /\ UNCHANGED <<prevClean, dirPrev>>

Advance_relist ==
  /\ idx' = idx + 1
  /\ LET unseen(n) == n \notin Range(fileNames)
     IN  fileNames' = fileNames \o SelectSeq(ListNames(dir'), unseen)
  /\ UNCHANGED total

\* the for-of loop moves to the next entry of the snapshot
Advance ==
  /\ idx' = idx + 1
  /\ UNCHANGED <<fileNames, total>>

\* renameProcess is called and awaits fs.stat
Call ==
  /\ pc = "idle"
  /\ pc' = "stat"
  /\ inflight' = inflight \cup {Issue("stat", NoName, NoName)}
  /\ trace' = Tr(<<Issue("stat", NoName, NoName)>>)
  /\ UNCHANGED <<dirKind, dir, fileNames, idx, total, done, outcome, run,
                 external, lateCreated, failures, listed, generated,
                 allFresh, prevClean, dirPrev>>

\* stat settles: a missing or non-directory path is reported and the
\* function returns; otherwise getFiles awaits fs.readdir
StatDone ==
  /\ pc = "stat"
  /\ UNCHANGED <<dirKind, dir, fileNames, idx, total, done, run, external,
                 lateCreated, failures, listed, generated, allFresh>>
  /\ IF directoryExists
       THEN /\ pc' = "readdir"
            /\ inflight' = {Issue("readdir", NoName, NoName)}
            /\ trace' = Tr(<<Settle("stat", NoName, NoName, TRUE),
                             Issue("readdir", NoName, NoName)>>)
            /\ UNCHANGED <<outcome, prevClean, dirPrev>>
       ELSE /\ inflight' = {}
            /\ trace' = Tr(<<Settle("stat", NoName, NoName, dirKind # "missing"),
                             Log("notDirectory", NoName, 0)>>)
            /\ Return

\* readdir resolves: the snapshot, total, done = 0, the start message
ReaddirOk ==
  /\ pc = "readdir"
  /\ dirKind = "dir"
  /\ fileNames' = ListNames(dir)
  /\ total' = Len(fileNames')
  /\ done' = 0
  /\ idx' = 1
  /\ listed' = dir
  /\ inflight' = {}
  /\ trace' = Tr(<<Settle("readdir", NoName, NoName, TRUE),
                   Log("start", NoName, 0)>>)
  /\ pc' = "loop"
  /\ UNCHANGED <<dirKind, dir, outcome, run, external, lateCreated, failures,
                 generated, allFresh, prevClean, dirPrev>>

ReaddirFail_propagates ==
  /\ pc = "readdir"
  /\ inflight' = {}
  /\ trace' = Tr(<<Settle("readdir", NoName, NoName, FALSE),
                   Log("readError", NoName, 0)>>)
  /\ pc' = "returned"
  /\ outcome' = "rejected"
  /\ UNCHANGED <<prevClean, dirPrev>>
  /\ UNCHANGED <<dirKind, dir, fileNames, idx, total, done, run, external,
                 lateCreated, failures, listed, generated, allFresh>>

\* readdir rejects: getFiles reports and rethrows, the outer catch of
\* renameProcess reports again, and renameProcess returns
ReaddirFail ==
  /\ pc = "readdir"
  /\ inflight' = {}
  /\ trace' = Tr(<<Settle("readdir", NoName, NoName, FALSE),
                   Log("readError", NoName, 0),
                   Log("processError", NoName, 0)>>)
  /\ UNCHANGED <<dirKind, dir, fileNames, idx, total, done, run, external,
                 lateCreated, failures, listed, generated, allFresh>>
  /\ Return

\* if (isUUID(path.parse(fileName).name)) continue
Skip ==
  /\ InLoop
  /\ isUUID(ParseName(fileName))
  /\ trace' = Tr(<<Ev("skip", "skip", fileName, NoName, 0)>>)
  /\ UNCHANGED <<dirKind, dir, pc, done, inflight, outcome, run, external,
                 lateCreated, failures, listed, generated, allFresh,
                 prevClean, dirPrev>>
  /\ Advance

\* uuid() returns id: whether it is new
Fresh(id) == id \notin generated /\ \A n \in Names(dir) : ParseName(n) # id

IssueRename_noAwait ==
  /\ InLoop
  /\ ~isUUID(ParseName(fileName))
  /\ \E id \in UUIDPool :
       LET newFileName == getNewFilename(id, Extname(fileName))
       IN  /\ inflight' = inflight \cup {Issue("rename", fileName, newFileName)}
           /\ trace' = Tr(<<Issue("rename", fileName, newFileName)>>)
           /\ generated' = generated \cup {id}
           /\ allFresh' = (allFresh /\ Fresh(id))
  /\ UNCHANGED <<dirKind, dir, pc, done, outcome, run, external, lateCreated,
                 failures, listed, prevClean, dirPrev>>
  /\ Advance

\* newFileName = getNewFilename(path.extname(fileName)); await fs.rename
IssueRename ==
  /\ InLoop
  /\ ~isUUID(ParseName(fileName))
  /\ \E id \in UUIDPool :
       LET newFileName == getNewFilename(id, Extname(fileName))
       IN  /\ inflight' = inflight \cup {Issue("rename", fileName, newFileName)}
           /\ trace' = Tr(<<Issue("rename", fileName, newFileName)>>)
           /\ generated' = generated \cup {id}
           /\ allFresh' = (allFresh /\ Fresh(id))
  /\ pc' = "rename"
  /\ UNCHANGED <<dirKind, dir, fileNames, idx, total, done, outcome, run,
                 external, lateCreated, failures, listed, prevClean, dirPrev>>

\* fs.rename resolves: done += 1 and the progress message
RenameOk ==
  /\ pc = "rename"
  /\ \E op \in inflight :
       /\ op.w = "rename"
       /\ op.old \in Names(dir)
       /\ dir' = Renamed(dir, op.old, op.new)
       /\ inflight' = inflight \ {op}
       /\ done' = done + 1
       /\ trace' = Tr(<<Settle("rename", op.old, op.new, TRUE),
                        Log("processing", fileName, done')>>)
  /\ pc' = "loop"
  /\ UNCHANGED <<dirKind, outcome, run, external, lateCreated, failures,
                 listed, generated, allFresh, prevClean, dirPrev>>
  /\ Advance

RenameFail_abort ==
  /\ pc = "rename"
  /\ failures < MaxFailures
  /\ failures' = failures + 1
  /\ \E op \in inflight :
       /\ op.w = "rename"
       /\ inflight' = inflight \ {op}
       /\ trace' = Tr(<<Settle("rename", op.old, op.new, FALSE),
                        Log("processError", NoName, 0)>>)
  /\ UNCHANGED <<dirKind, dir, fileNames, idx, total, done, run, external,
                 lateCreated, listed, generated, allFresh>>
  /\ Return

RenameFail_counts ==
  /\ pc = "rename"
  /\ failures < MaxFailures
  /\ failures' = failures + 1
  /\ \E op \in inflight :
       /\ op.w = "rename"
       /\ inflight' = inflight \ {op}
       /\ trace' = Tr(<<Settle("rename", op.old, op.new, FALSE),
                        Log("renameError", fileName, 0)>>)
  /\ done' = done + 1
  /\ pc' = "loop"
  /\ UNCHANGED <<dirKind, dir, outcome, run, external, lateCreated, listed,
                 generated, allFresh, prevClean, dirPrev>>
  /\ Advance

\* fs.rename rejects: the inner catch reports and the loop goes on
RenameFail ==
  /\ pc = "rename"
  /\ failures < MaxFailures
  /\ failures' = failures + 1
  /\ \E op \in inflight :
       /\ op.w = "rename"
       /\ inflight' = inflight \ {op}
       /\ trace' = Tr(<<Settle("rename", op.old, op.new, FALSE),
                        Log("renameError", fileName, 0)>>)
  /\ pc' = "loop"
  /\ UNCHANGED <<dirKind, dir, done, outcome, run, external, lateCreated,
                 listed, generated, allFresh, prevClean, dirPrev>>
  /\ Advance

Complete_early ==
  /\ pc = "loop"
  /\ idx >= Len(fileNames)
  /\ trace' = Tr(<<Log("completed", NoName, 0)>>)
  /\ UNCHANGED <<dirKind, dir, fileNames, idx, total, done, inflight, run,
                 external, lateCreated, failures, listed, generated, allFresh>>
  /\ Return

\* the loop is over: the completion message, and renameProcess returns
Complete ==
  /\ pc = "loop"
  /\ idx > Len(fileNames)
  /\ trace' = Tr(<<Log("completed", NoName, 0)>>)
  /\ UNCHANGED <<dirKind, dir, fileNames, idx, total, done, inflight, run,
                 external, lateCreated, failures, listed, generated, allFresh>>
  /\ Return

\* the service is started again on the same directory
Rerun ==
  /\ pc = "returned"
  /\ run < MaxRuns
  /\ run' = run + 1
  /\ pc' = "idle"
  /\ outcome' = "pending"
  /\ trace' = <<>>
  /\ fileNames' = <<>>
  /\ idx' = 1
  /\ total' = 0
  /\ done' = 0
  /\ lateCreated' = {}
  /\ dirPrev' = dir
  /\ prevClean' = ( /\ \E i \in 1..Len(trace) : trace[i].w = "completed"
                    /\ \A i \in 1..Len(trace) : trace[i].k # "fail" )
  /\ UNCHANGED <<dirKind, dir, inflight, external, failures, listed,
                 generated, allFresh>>

\* another actor creates an entry in the directory while the loop runs
ExternalCreate ==
  /\ dirKind = "dir"
  /\ pc \in {"loop", "rename"}
  /\ external < MaxExternal
  /\ \E n \in ExternalNames \ Names(dir) :
       /\ dir' = Append(dir, [name |-> n, file |-> 0 - (external + 1)])
       /\ lateCreated' = lateCreated \cup {n}
  /\ external' = external + 1
  /\ UNCHANGED <<dirKind, pc, fileNames, idx, total, done, inflight, outcome,
                 trace, run, failures, listed, generated, allFresh,
                 prevClean, dirPrev>>

\* one invocation, with another actor writing into the directory
Next ==
  \/ Call
  \/ StatDone
  \/ ReaddirOk
  \/ ReaddirFail
  \/ Skip
  \/ IssueRename
  \/ RenameOk
  \/ RenameFail
  \/ Complete
  \/ ExternalCreate

Spec == Init /\ [][Next]_vars

\* invocations in succession, with no other actor
NextRerun ==
  \/ Call
  \/ StatDone
  \/ ReaddirOk
  \/ ReaddirFail
  \/ Skip
  \/ IssueRename
  \/ RenameOk
  \/ RenameFail
  \/ Complete
  \/ Rerun

SpecRerun == Init /\ [][NextRerun]_vars

\* ------------------------------------------------------ reading the trace
\* positions of the trace holding an event of kind k about w
At(k, w) == {i \in 1..Len(trace) : trace[i].k = k /\ trace[i].w = w}
\* positions where a rename of the entry named n was issued
Attempts(n) == {i \in At("issue", "rename") : trace[i].old = n}
\* positions where any filesystem call was issued / settled
Issued == {i \in 1..Len(trace) : trace[i].k = "issue"}
Settled == {i \in 1..Len(trace) : trace[i].k \in {"ok", "fail"}}
\* positions of the per-entry events
PerEntry ==
  {i \in 1..Len(trace) :
     trace[i].w \in {"rename", "processing", "renameError", "skip"}}

ListedOk == At("ok", "readdir") # {}
ListingFailed == At("fail", "readdir") # {}
Completed == At("log", "completed") # {}

\* the identifier pattern: 36 characters, groups of 8, 4, 4, 4 and 12 hex
\* digits of either case, separated by "-"
Digits == {"0","1","2","3","4","5","6","7","8","9"}
LowerHex == {"a","b","c","d","e","f"}
UpperHex == {"A","B","C","D","E","F"}
IdentifierShaped(s) ==
  /\ Len(s) = 36
  /\ \A i \in {9, 14, 19, 24} : s[i] = "-"
  /\ \A i \in (1..36) \ {9, 14, 19, 24} :
       s[i] \in Digits \cup LowerHex \cup UpperHex

\* the entry's base name (the name without its last extension) matches
Matching(n) == IdentifierShaped(ParseName(n))
\* position of a name in the snapshot
Pos(n) == CHOOSE i \in 1..Len(fileNames) : fileNames[i] = n

\* ------------------------------------------------------------------ claims

\* C1: when no entry of the snapshot matches the identifier pattern, no
\* rename fails and every generated identifier is fresh, then once
\* renameProcess has returned every entry of the snapshot was renamed
\* exactly once, to <identifier><path.extname of the old name> (exactly the
\* identifier when the name has no extension), that name now names the
\* entry's file, and done = total = the size of the snapshot.
C1_AllRenamed ==
  ( /\ pc = "returned"
    /\ Completed
    /\ allFresh
    /\ At("fail", "rename") = {}
    /\ \A i \in 1..Len(fileNames) : ~Matching(fileNames[i]) )
  => /\ done = total
     /\ total = Len(listed)
     /\ \A i \in 1..Len(fileNames) :
          LET n == fileNames[i]
              oks == {j \in At("ok", "rename") : trace[j].old = n}
          IN  /\ Cardinality(oks) = 1
              /\ \A j \in oks :
                   LET new == trace[j].new
                   IN  /\ Len(new) >= 36
                       /\ IdentifierShaped(SubSeq(new, 1, 36))
                       /\ SubSeq(new, 37, Len(new)) = Extname(n)
                       /\ new \in Names(dir)
                       /\ FileAt(dir, new) = FileAt(listed, n)
              /\ n \in Names(dir) => n \in lateCreated

C1_Witness ==
  /\ pc = "returned"
  /\ Completed
  /\ allFresh
  /\ At("fail", "rename") = {}
  /\ \A i \in 1..Len(fileNames) : ~Matching(fileNames[i])
  /\ N_report \in Range(fileNames)
  /\ N_tar \in Range(fileNames)
  /\ done = 2

\* C2: an entry of the snapshot whose base name matches the identifier
\* pattern, in any mix of upper and lower case, is never the subject of a
\* rename or of a message, keeps its name in the directory, and is not
\* counted in done: done never exceeds the number of non-matching entries
\* the loop has reached.
C2_MatchingUntouched ==
  ListedOk =>
    /\ \A i \in 1..Len(fileNames) :
         Matching(fileNames[i]) =>
           /\ \A j \in 1..Len(trace) :
                trace[j].old = fileNames[i] => trace[j].k = "skip"
           /\ fileNames[i] \in Names(dir)
    /\ done <= Cardinality({j \in 1..Len(fileNames) :
                              j <= idx /\ ~Matching(fileNames[j])})

C2_Witness ==
  /\ pc = "returned"
  /\ Completed
  /\ N_upper \in Range(fileNames)
  /\ N_uuidPng \in Range(fileNames)
  /\ \E j \in At("skip", "skip") : trace[j].old = N_upper
  /\ done = 1

\* C3: when the previous invocation completed with no failed rename and no
\* other actor touches the directory, the next invocation issues no rename,
\* skips every entry it lists, ends with done = 0 and leaves the directory
\* as the previous invocation left it.
C3_RerunIdempotent ==
  (run >= 2 /\ prevClean /\ pc = "returned")
  => /\ At("issue", "rename") = {}
     /\ done = 0
     /\ dir = dirPrev
     /\ Completed => Cardinality(At("skip", "skip")) = Len(fileNames)

C3_Witness ==
  /\ run = 2
  /\ prevClean
  /\ pc = "returned"
  /\ Completed
  /\ Len(fileNames) = 3
  /\ Cardinality(generated) = 2
  /\ \E i \in 1..Len(dir) : dir[i].file = 4 /\ dir[i].name # N_tar

\* C4: when the path is missing or is not a directory, renameProcess only
\* stats it, reports that and returns normally: no listing, no rename, no
\* start or completion message, the directory untouched.
C4_NotADirectory ==
  dirKind # "dir" =>
    /\ At("issue", "readdir") = {}
    /\ At("issue", "rename") = {}
    /\ At("log", "start") = {}
    /\ At("log", "completed") = {}
    /\ outcome # "rejected"
    /\ dir = listed
    /\ pc = "returned" =>
         /\ outcome = "resolved"
         /\ trace = <<Issue("stat", NoName, NoName),
                      Settle("stat", NoName, NoName, dirKind = "file"),
                      Log("notDirectory", NoName, 0)>>

C4_Witness == dirKind = "file" /\ pc = "returned"

\* C5: whichever renames fail, every non-matching entry of the snapshot
\* gets exactly one rename attempt: one once the loop has passed it, none
\* before, never two; and an entry whose rename failed still has its name
\* and its file.
C5_FailureIsolation ==
  ListedOk =>
    \A i \in 1..Len(fileNames) :
      LET n == fileNames[i]
      IN  ~Matching(n) =>
            /\ Cardinality(Attempts(n)) = (IF i <= idx /\ (i < idx \/ pc = "rename")
                                             THEN 1 ELSE 0)
            /\ pc = "returned" => Cardinality(Attempts(n)) = 1
            /\ (\E j \in At("fail", "rename") : trace[j].old = n)
                 => /\ n \in Names(dir)
                    /\ FileAt(dir, n) = FileAt(listed, n)

C5_Witness ==
  /\ pc = "returned"
  /\ Len(fileNames) = 3
  /\ \E j \in At("fail", "rename") : trace[j].old = fileNames[1]
  /\ \E j \in At("ok", "rename") : trace[j].old = fileNames[2]
  /\ \E j \in At("fail", "rename") : trace[j].old = fileNames[3]

\* C6 as stated: a failed listing makes renameProcess end with the error
\* propagated to its caller.
C6_ListingFailureRejects ==
  (ListingFailed /\ pc = "returned") => outcome = "rejected"

\* C6 amended: a failed listing is reported by getFiles and rethrown to
\* renameProcess, whose outer handler reports it again; renameProcess then
\* returns normally, with no rename attempted and no start or completion
\* message.
C6_ListingFailureReported ==
  ListingFailed =>
    /\ pc = "returned"
    /\ outcome = "resolved"
    /\ trace = <<Issue("stat", NoName, NoName),
                 Settle("stat", NoName, NoName, TRUE),
                 Issue("readdir", NoName, NoName),
                 Settle("readdir", NoName, NoName, FALSE),
                 Log("readError", NoName, 0),
                 Log("processError", NoName, 0)>>
    /\ dir = listed

C6_Witness == ListingFailed /\ pc = "returned" /\ Len(dir) = 2

\* C7: the directory is listed exactly once per invocation, fileNames stays
\* that listing and total its size; an entry another actor creates after
\* the listing is never the subject of a rename attempt and is counted
\* neither in done nor in total.
C7_Snapshot ==
  /\ Cardinality(At("issue", "readdir")) <= 1
  /\ ListedOk =>
       /\ Cardinality(At("issue", "readdir")) = 1
       /\ fileNames = ListNames(listed)
       /\ total = Len(listed)
       /\ done <= total
       /\ \A op \in inflight : op.old \notin lateCreated
       /\ \A j \in At("issue", "rename") : trace[j].old \in Names(listed)
       /\ \A n \in lateCreated \ Names(listed) :
            \A j \in 1..Len(trace) : trace[j].old # n

C7_Witness ==
  /\ pc = "returned"
  /\ Completed
  /\ lateCreated = {N_late}
  /\ N_late \in Names(dir)
  /\ done = 2
  /\ total = 2

\* C8: done is the number of renames that have succeeded so far, every
\* progress message carries that number, 0 <= done <= total, and at
\* completion done + skipped + failed = total.
C8_DoneCounts ==
  ListedOk =>
    /\ done = Cardinality(At("ok", "rename"))
    /\ 0 <= done
    /\ done <= total
    /\ \A j \in At("log", "processing") :
         trace[j].n = Cardinality({i \in At("ok", "rename") : i < j})
    /\ Completed =>
         done + Cardinality(At("skip", "skip"))
              + Cardinality(At("fail", "rename")) = total

C8_Witness ==
  /\ Completed
  /\ done = 1
  /\ Cardinality(At("skip", "skip")) = 1
  /\ Cardinality(At("fail", "rename")) = 1

\* C9: on a directory that was listed, the start message is emitted exactly
\* once and before every rename attempt, per-entry message and the
\* completion message; every settled rename is followed at once by its
\* progress or failure message; the completion message is emitted exactly
\* once, last, when every entry has been renamed, failed or skipped, and it
\* has been emitted whenever renameProcess has returned.
C9_Ordering ==
  ListedOk =>
    /\ Cardinality(At("log", "start")) = 1
    /\ \A s \in At("log", "start") :
         \A j \in PerEntry \cup At("log", "completed") : s < j
    /\ \A j \in At("ok", "rename") :
         /\ j < Len(trace)
         /\ trace[j + 1] = Log("processing", trace[j].old, trace[j + 1].n)
    /\ \A j \in At("fail", "rename") :
         /\ j < Len(trace)
         /\ trace[j + 1] = Log("renameError", trace[j].old, 0)
    /\ Cardinality(At("log", "completed")) <= 1
    /\ \A c \in At("log", "completed") :
         /\ c = Len(trace)
         /\ pc = "returned"
         /\ \A i \in 1..Len(fileNames) :
              \E j \in 1..(c - 1) :
                /\ trace[j].k \in {"ok", "fail", "skip"}
                /\ trace[j].old = fileNames[i]
    /\ pc = "returned" => Completed

C9_Witness ==
  /\ pc = "returned"
  /\ Completed
  /\ Len(fileNames) = 2
  /\ Cardinality(At("fail", "rename")) = 2

\* C10: at most one filesystem call is in flight; every call issued is
\* settled before anything else happens; renames are issued in listing
\* order.
C10_Sequential ==
  /\ Cardinality(inflight) <= 1
  /\ Cardinality(Issued) = Cardinality(Settled) + Cardinality(inflight)
  /\ \A p \in Issued :
       IF p = Len(trace)
         THEN inflight = {trace[p]}
         ELSE /\ trace[p + 1].k \in {"ok", "fail"}
              /\ trace[p + 1].w = trace[p].w
              /\ trace[p + 1].old = trace[p].old
              /\ trace[p + 1].new = trace[p].new
  /\ \A p, q \in At("issue", "rename") :
       p < q => Pos(trace[p].old) < Pos(trace[q].old)

C10_Witness ==
  /\ pc = "rename"
  /\ Cardinality(At("issue", "rename")) = 3
  /\ Cardinality(At("fail", "rename")) = 1

====
